---- MODULE Spec2Model ----
(***************************************************************************)
(* A model of src/src/playwright/index.ts: the DOM extraction run inside   *)
(* the page (extractDom / cleanupDom / prettyPrintDom), the tool dispatch  *)
(* (handleToolCall) and the resource handlers of createServer.             *)
(*                                                                         *)
(* Strings are sequences of tokens.  A token is either a whitespace        *)
(* character (" ", "\t") or a piece of text without whitespace, so that    *)
(* trim(), replace(/\s+/g, ' '), split("://") and startsWith() are         *)
(* computed, not assumed.                                                  *)
(***************************************************************************)
EXTENDS Integers, Sequences, FiniteSets

VARIABLES
    doc,          \* the live document of the page: node id -> node
    source,       \* the document the site serves (what page.goto loads)
    outcome,      \* how the last request ended (returned result or thrown error)
    root,         \* the tree the last extraction built (extractDom's `root`)
    prev,         \* the tree of the extraction before it, if the page was
                  \* left alone in between
    screenshots,  \* the `screenshots` map: name -> base64 image
    consoleLogs,  \* the `consoleLogs` array
    connected     \* browser is set and browser.isConnected()

vars ==
    <<doc, source, outcome, root, prev, screenshots, consoleLogs, connected>>

(***************************************************************************)
(* Bounds of the model.                                                    *)
(***************************************************************************)
MaxNodes == 4      \* nodes of a document, the body included
MaxAttrs == 2      \* attributes of the element under test (SpecAttr)
MaxNameLen == 2    \* tokens of a screenshot name
MaxShots == 2      \* screenshots stored
MaxLogs == 1       \* console messages logged

(***************************************************************************)
(* Strings.                                                                *)
(***************************************************************************)
Whitespace == {" ", "\t"}

IsBlank(s) == \A i \in 1..Len(s) : s[i] \in Whitespace

RECURSIVE TrimStart(_)
TrimStart(s) ==
    IF s # <<>> /\ Head(s) \in Whitespace THEN TrimStart(Tail(s)) ELSE s

RECURSIVE TrimEnd(_)
TrimEnd(s) ==
    IF s # <<>> /\ s[Len(s)] \in Whitespace
    THEN TrimEnd(SubSeq(s, 1, Len(s) - 1))
    ELSE s

\* String.prototype.trim
Trim(s) == TrimEnd(TrimStart(s))

\* s.replace(/\s+/g, ' '): every maximal run of whitespace becomes one space
RECURSIVE CollapseWhitespace(_)
CollapseWhitespace(s) ==
    IF s = <<>> THEN <<>>
    ELSE IF Head(s) \in Whitespace
         THEN <<" ">> \o CollapseWhitespace(TrimStart(s))
         ELSE <<Head(s)>> \o CollapseWhitespace(Tail(s))

\* Number.prototype.toString for a non-negative integer
DigitChars == <<"0", "1", "2", "3", "4", "5", "6", "7", "8", "9">>

RECURSIVE ToString(_)
ToString(n) ==
    IF n < 10 THEN <<DigitChars[n + 1]>>
    ELSE ToString(n \div 10) \o <<DigitChars[(n % 10) + 1]>>

DigitValue(c) == (CHOOSE i \in 1..10 : DigitChars[i] = c) - 1

RECURSIVE ParseInt(_)
ParseInt(s) ==
    IF Len(s) = 1 THEN DigitValue(s[1])
    ELSE 10 * ParseInt(SubSeq(s, 1, Len(s) - 1)) + DigitValue(s[Len(s)])

\* String.prototype.toLowerCase on the tag names of the model
ToLowerCase(t) ==
    CASE t = "BODY" -> "body"
      [] t = "DIV" -> "div"
      [] t = "SPAN" -> "span"
      [] t = "A" -> "a"
      [] t = "SCRIPT" -> "script"
      [] t = "IFRAME" -> "iframe"
      [] t = "SLOT" -> "slot"
      [] t = "INPUT" -> "input"
      [] t = "BUTTON" -> "button"
      [] OTHER -> t

\* Array.prototype.join
RECURSIVE Join(_, _)
Join(parts, sep) ==
    IF parts = <<>> THEN <<>>
    ELSE IF Len(parts) = 1 THEN parts[1]
    ELSE parts[1] \o sep \o Join(Tail(parts), sep)

(***************************************************************************)
(* The DOM.  A document is a function from node ids 1..n to nodes; node 1  *)
(* is document.body and ids follow tree order.  `shadow` marks a child of  *)
(* its parent's shadow root (not a light-DOM child).  `value` is the       *)
(* element's value property: a string, a number or undefined.              *)
(***************************************************************************)
Undefined == [t |-> "undefined", s |-> <<>>, n |-> 0]
StringValue(s) == [t |-> "string", s |-> s, n |-> 0]
NumberValue(n) == [t |-> "number", s |-> <<>>, n |-> n]

Attr(name, value) == [name |-> name, value |-> value]

Element(tag, attrs, value, shadow) ==
    [kind |-> "element", tagName |-> tag, attrs |-> attrs, data |-> <<>>,
     value |-> value, shadow |-> shadow, parent |-> 0]

Text(data) ==
    [kind |-> "text", tagName |-> "#text", attrs |-> <<>>, data |-> data,
     value |-> Undefined, shadow |-> FALSE, parent |-> 0]

Nodes(d) == DOMAIN d

\* Element.getAttributeNames
GetAttributeNames(e) == [i \in 1..Len(e.attrs) |-> e.attrs[i].name]

HasAttribute(e, name) == \E i \in 1..Len(e.attrs) : e.attrs[i].name = name

\* Element.getAttribute, for an attribute the element has
GetAttribute(e, name) ==
    e.attrs[CHOOSE i \in 1..Len(e.attrs) : e.attrs[i].name = name].value

\* element.getAttribute(name) === value (null equals no string)
AttributeIs(e, name, value) ==
    HasAttribute(e, name) /\ GetAttribute(e, name) = value

\* Element.setAttribute: an existing attribute keeps its place, a new one
\* goes last
SetAttribute(e, name, value) ==
    IF HasAttribute(e, name)
    THEN [e EXCEPT !.attrs =
            [i \in 1..Len(e.attrs) |->
                IF e.attrs[i].name = name THEN Attr(name, value) ELSE e.attrs[i]]]
    ELSE [e EXCEPT !.attrs = Append(e.attrs, Attr(name, value))]

\* The light-DOM children of node p, as a set and in sibling order: what
\* TreeWalker.firstChild / nextSibling enumerate from p (the walker never
\* enters a shadow root).
ChildSet(d, p) == {c \in Nodes(d) : d[c].parent = p /\ ~d[c].shadow}

RECURSIVE SortedSeq(_)
SortedSeq(S) ==
    IF S = {} THEN <<>>
    ELSE LET m == CHOOSE x \in S : \A y \in S : x <= y
         IN <<m>> \o SortedSeq(S \ {m})

ChildNodes(d, p) == SortedSeq(ChildSet(d, p))

RECURSIVE Ancestors(_, _)
Ancestors(d, n) ==
    IF d[n].parent = 0 THEN {}
    ELSE {d[n].parent} \cup Ancestors(d, d[n].parent)

\* The host whose shadow tree holds node n (0: n is in the document tree)
RECURSIVE ShadowHost(_, _)
ShadowHost(d, n) ==
    IF d[n].parent = 0 THEN 0
    ELSE IF d[n].shadow THEN d[n].parent
    ELSE ShadowHost(d, d[n].parent)

SlotName(e) == IF HasAttribute(e, "name") THEN GetAttribute(e, "name") ELSE <<>>
SlotOf(e) == IF HasAttribute(e, "slot") THEN GetAttribute(e, "slot") ELSE <<>>

\* The slots a light child n of a shadow host can be assigned to: the <slot>
\* elements of the host's shadow tree whose name is n's slot attribute
SlotCandidates(d, n) ==
    {s \in Nodes(d) :
        /\ d[n].parent # 0
        /\ ~d[n].shadow
        /\ ShadowHost(d, s) = d[n].parent
        /\ d[s].kind = "element"
        /\ d[s].tagName = "SLOT"
        /\ SlotName(d[s]) = SlotOf(d[n])}

\* Element.assignedSlot: the first such slot in tree order, 0 for null
AssignedSlot(d, n) ==
    IF SlotCandidates(d, n) = {} THEN 0
    ELSE CHOOSE s \in SlotCandidates(d, n) : \A t \in SlotCandidates(d, n) : s <= t

(***************************************************************************)
(* cleanupDom (lines 152-234), split into the rules it applies in turn.    *)
(***************************************************************************)
PrunedTags ==
    {"STYLE", "SCRIPT", "NOSCRIPT", "LINK", "META", "HEAD", "CODE", "SVG",
     "FONT", "BR"}

\* A plausible slip: the tag list alone, the three attribute tests lost
PrunedByTagOnly(e) == e.tagName \in PrunedTags

\* The condition of lines 168-183
Pruned(e) ==
    \/ e.tagName \in PrunedTags
    \/ AttributeIs(e, "type", <<"hidden">>)
    \/ AttributeIs(e, "disabled", <<"true">>)
    \/ AttributeIs(e, "aria-hidden", <<"true">>)

\* A plausible slip: the tag compared in the wrong case, so never equal
UnsupportedLowerCase(e) == e.tagName = "iframe"

\* The condition of line 191
Unsupported(e) == e.tagName = "IFRAME"

IframeMessage == <<"IFRAME not supported">>
NullChildrenMessage == <<"Cannot read properties of null (reading 'children')">>
NullTypeMessage == <<"Cannot read properties of null (reading 'type')">>

\* instanceof HTMLButtonElement | HTMLInputElement | HTMLTextAreaElement |
\* HTMLLIElement | HTMLOptionElement
ValueBearingTags == {"BUTTON", "INPUT", "TEXTAREA", "LI", "OPTION"}

\* The node's `value` field, lines 195-214
ExtractValue(e) ==
    IF e.tagName \notin ValueBearingTags \/ e.tagName = "INPUT" THEN Undefined
    ELSE IF e.value.t = "string"
         THEN IF Trim(e.value.s) # <<>>
              THEN StringValue(Trim(CollapseWhitespace(Trim(e.value.s))))
              ELSE Undefined
    ELSE IF e.value.t = "number" THEN e.value
    ELSE Undefined

\* The synthetic value entry of an input, lines 204-205: pushed as it is
SyntheticAttributes(e) ==
    IF e.tagName = "INPUT" THEN <<Attr("value", e.value.s)>> ELSE <<>>

\* The forEach of lines 216-225 over the element's attributes, in
\* getAttributeNames order (the value of a listed name is never null)
RECURSIVE NormalizeAttributes(_, _)
NormalizeAttributes(tagName, attrs) ==
    IF attrs = <<>> THEN <<>>
    ELSE LET a == Head(attrs)
             trimmedValue == Trim(a.value)
             rest == NormalizeAttributes(tagName, Tail(attrs))
         IN IF trimmedValue = <<>> THEN rest
            ELSE IF a.name = "role" /\ trimmedValue = <<"presentation">> THEN rest
            ELSE IF tagName = "BUTTON" /\ trimmedValue = <<"button">> THEN rest
            ELSE <<Attr(a.name, Trim(CollapseWhitespace(trimmedValue)))>> \o rest

\* A plausible slip: the attributes read before the mcp-id is written
ElementBeforeMark(e, elementId) == e

\* The element as getAttributeNames (line 216) finds it: after the
\* setAttribute of line 165
ElementAtEnumeration(e, elementId) == SetAttribute(e, "mcp-id", elementId)

\* The nodes cleanupDom returns; `src` is the DOM node it was made from
TextNode(n, text) ==
    [type |-> "text", text |-> text, tagName |-> "", attributes |-> <<>>,
     children |-> <<>>, value |-> Undefined, src |-> n]

ElementNode(n, tagName, attributes, value) ==
    [type |-> "element", text |-> <<>>, tagName |-> tagName,
     attributes |-> attributes, children |-> <<>>, value |-> value, src |-> n]

NoNode == TextNode(0, <<>>)

Returned(d, id, node) ==
    [ret |-> "node", node |-> node, id |-> id, d |-> d, message |-> <<>>]
ReturnedNull(d, id) ==
    [ret |-> "null", node |-> NoNode, id |-> id, d |-> d, message |-> <<>>]
Thrown(d, id, message) ==
    [ret |-> "throw", node |-> NoNode, id |-> id, d |-> d, message |-> message]

\* cleanupDom(element, window, idFunc) on node n of document d, the counter
\* of idFunc standing at id: what it returns or throws, the counter and the
\* document afterwards
cleanupDom(d, n, id) ==
    IF d[n].kind = "text"
    THEN LET textContent == Trim(CollapseWhitespace(d[n].data))
         IN IF textContent = <<>> THEN ReturnedNull(d, id)
            ELSE Returned(d, id, TextNode(n, textContent))
    ELSE LET elementId == ToString(id + 1)
             marked == [d EXCEPT ![n] = SetAttribute(d[n], "mcp-id", elementId)]
             element == ElementAtEnumeration(d[n], elementId)
         IN IF Pruned(element) THEN ReturnedNull(marked, id + 1)
            ELSE IF AssignedSlot(d, n) # 0 THEN ReturnedNull(marked, id + 1)
            ELSE IF Unsupported(element) THEN Thrown(marked, id + 1, IframeMessage)
            ELSE Returned(marked, id + 1,
                    ElementNode(n, element.tagName,
                        SyntheticAttributes(element)
                            \o NormalizeAttributes(element.tagName, element.attrs),
                        ExtractValue(element)))

(***************************************************************************)
(* extractDom (lines 142-276).  The tree under construction is a heap of   *)
(* nodes (index 1 is `root`); `children` holds heap indices, so that       *)
(* node.children.push(childNode) updates the node the stack entry shares.  *)
(***************************************************************************)
StackEntry(node, walkerNode) == [node |-> node, walkerNode |-> walkerNode]

\* The nodes walker.firstChild() and then walker.nextSibling() return with
\* walker.currentNode set to walkerNode (lines 243-252)
WalkerChildren(d, walkerNode) == ChildNodes(d, walkerNode)

\* The inner while loop of lines 246-253 over the children still to visit.
\* st = [d, heap, stack, id, message]; `node` is the heap index of the
\* popped entry's node, 0 when it is null.
RECURSIVE VisitChildren(_, _, _)
VisitChildren(st, node, children) ==
    IF children = <<>> THEN st
    ELSE LET child == Head(children)
             r == cleanupDom(st.d, child, st.id)
             after == [st EXCEPT !.d = r.d, !.id = r.id]
         IN IF r.ret = "throw"
            THEN [after EXCEPT !.threw = TRUE, !.message = r.message]
            ELSE IF r.ret = "null"
            THEN VisitChildren(after, node, Tail(children))
            ELSE IF node = 0
            THEN [after EXCEPT !.threw = TRUE, !.message = NullChildrenMessage]
            ELSE LET at == Len(st.heap) + 1
                     heap == [Append(st.heap, r.node) EXCEPT
                                ![node].children = Append(@, at)]
                 IN VisitChildren(
                        [after EXCEPT !.heap = heap,
                                      !.stack = Append(@, StackEntry(at, child))],
                        node, Tail(children))

\* The outer while loop of lines 241-254: pop the last entry, visit the
\* children of its walkerNode
RECURSIVE WalkStack(_)
WalkStack(st) ==
    IF st.threw \/ st.stack = <<>> THEN st
    ELSE LET top == st.stack[Len(st.stack)]
             popped == [st EXCEPT !.stack = SubSeq(@, 1, Len(@) - 1)]
         IN WalkStack(VisitChildren(popped, top.node,
                                    WalkerChildren(popped.d, top.walkerNode)))

Repeat(c, k) == [i \in 1..k |-> c]

RenderAttribute(a) == <<a.name, "=\"">> \o a.value \o <<"\"">>

\* prettyPrintDom (lines 256-273) on heap node `at`
RECURSIVE prettyPrintDom(_, _, _)
prettyPrintDom(heap, at, depth) ==
    LET node == heap[at]
        indent == Repeat("\t", depth \div 2)
        tag == ToLowerCase(node.tagName)
        attributes ==
            Join([i \in 1..Len(node.attributes) |->
                    RenderAttribute(node.attributes[i])], <<" ">>)
        children ==
            Join([i \in 1..Len(node.children) |->
                    prettyPrintDom(heap, node.children[i], depth + 1)], <<"\n">>)
    IN IF node.type = "text" THEN indent \o node.text
       ELSE IF /\ tag = "a"
               /\ Len(node.children) = 1
               /\ heap[node.children[1]].type = "text"
       THEN indent \o <<"<", tag, " ">> \o attributes \o <<">">>
                \o heap[node.children[1]].text \o <<"</", tag, ">">>
       ELSE indent \o <<"<", tag, " ">> \o attributes \o <<">", "\n">>
                \o children \o <<"\n">> \o indent \o <<"</", tag, ">">>

\* extractDom on document d: [threw, message] when the page function
\* throws, else [text] the string it returns; d the document it leaves and
\* heap the tree it built
extractDom(d) ==
    LET r == cleanupDom(d, 1, 0)
        start == [d |-> r.d, id |-> r.id, threw |-> r.ret = "throw",
                  message |-> r.message,
                  heap |-> IF r.ret = "node" THEN <<r.node>> ELSE <<>>,
                  stack |-> <<StackEntry(IF r.ret = "node" THEN 1 ELSE 0, 1)>>]
        end == WalkStack(start)
    IN IF end.threw
       THEN [threw |-> TRUE, message |-> end.message, text |-> <<>>,
             d |-> end.d, heap |-> <<>>]
       ELSE IF end.heap = <<>>
       THEN [threw |-> TRUE, message |-> NullTypeMessage, text |-> <<>>,
             d |-> end.d, heap |-> <<>>]
       ELSE [threw |-> FALSE, message |-> <<>>,
             text |-> prettyPrintDom(end.heap, 1, 0),
             d |-> end.d, heap |-> end.heap]

(***************************************************************************)
(* The documents of the model.                                             *)
(***************************************************************************)
Body(attrs) == Element("BODY", attrs, Undefined, FALSE)

\* The document of a page just opened by context.newPage()
BlankDocument == <<Body(<<>>)>>

Bodies == {Body(<<>>), Body(<<Attr("aria-hidden", <<"true">>)>>)}

\* What a node below the body can be in the structural specification; a
\* SLOT sits in its parent's shadow root and is the default slot
StructureNodes ==
    {Element("DIV", <<>>, Undefined, FALSE),
     Element("DIV", <<Attr("aria-hidden", <<"true">>)>>, Undefined, FALSE),
     Element("SCRIPT", <<>>, Undefined, FALSE),
     Element("IFRAME", <<Attr("src", <<"x">>)>>, Undefined, FALSE),
     Element("IFRAME", <<Attr("aria-hidden", <<"true">>)>>, Undefined, FALSE),
     Element("SLOT", <<>>, Undefined, TRUE),
     Text(<<"Hello", " ", "\t", "world">>),
     Text(<<" ">>)}

RECURSIVE AncestorsIn(_, _)
AncestorsIn(p, i) ==
    IF i = 1 THEN {} ELSE {p[i]} \cup AncestorsIn(p, p[i])

\* Parent vectors of the trees on nodes 1..n whose ids follow tree order
ParentVectors(n) ==
    {p \in [2..n -> 1..n] :
        \A i \in 2..n :
            /\ p[i] < i
            /\ p[i] = i - 1 \/ p[i] \in AncestorsIn(p, i - 1)}

BuildDocument(body, p, f) ==
    [i \in 1..(Cardinality(DOMAIN f) + 1) |->
        IF i = 1 THEN body ELSE [f[i] EXCEPT !.parent = p[i]]]

\* Only an element has children
WellFormed(d) == \A i \in Nodes(d) : i = 1 \/ d[d[i].parent].kind = "element"

(***************************************************************************)
(* Requests and how they end.                                              *)
(***************************************************************************)
\* `failed` records that the browser action under the request failed.
\* handleToolCall returned a CallToolResult / a handler returned a response
Result(tool, arg, isError, text) ==
    [tool |-> tool, arg |-> arg, threw |-> FALSE, isError |-> isError,
     text |-> text, failed |-> FALSE]

\* a catch block of handleToolCall returned the failed-call result
Caught(tool, arg, text) ==
    [tool |-> tool, arg |-> arg, threw |-> FALSE, isError |-> TRUE,
     text |-> text, failed |-> TRUE]

\* the handler's promise was rejected: the error left the handler
Rejected(tool, arg, message) ==
    [tool |-> tool, arg |-> arg, threw |-> TRUE, isError |-> FALSE,
     text |-> message, failed |-> TRUE]

NoRequest == Result("none", <<>>, FALSE, <<>>)

\* ensureBrowser (lines 120-140): the document of the page the handler
\* works on; a browser that is not connected is launched and a blank page
\* opened
Page == IF connected THEN doc ELSE BlankDocument

\* case "playwright_extract_dom" of handleToolCall (lines 401-426); the
\* size report of lines 404-409 only writes to stderr
CallExtractDom ==
    \E r \in {extractDom(Page)} :
       /\ connected' = TRUE
       /\ doc' = r.d
       /\ UNCHANGED source
       /\ outcome' =
            IF r.threw
            THEN Caught("playwright_extract_dom", <<>>,
                        <<"Failed to extract DOM: ">> \o r.message)
            ELSE Result("playwright_extract_dom", <<>>, FALSE, r.text)
       /\ root' = r.heap
       /\ prev' = IF connected THEN root ELSE <<>>
       /\ UNCHANGED <<screenshots, consoleLogs>>

Urls == {<<"https://example.test/">>, <<"not a url">>}
ValidUrl(url) == url = <<"https://example.test/">>
NavigationMessage(url) == <<"Cannot navigate to invalid URL ">> \o url

\* case "playwright_navigate" (lines 282-290): page.goto loads the document
\* the URL serves, or rejects and leaves the page as it is
CallNavigate ==
    \E url \in Urls :
        /\ connected' = TRUE
        /\ UNCHANGED source
        /\ doc' = IF ValidUrl(url) THEN source ELSE Page
        /\ outcome' =
            IF ValidUrl(url)
            THEN Result("playwright_navigate", url, FALSE,
                        <<"Navigated to ">> \o url)
            ELSE Rejected("playwright_navigate", url, NavigationMessage(url))
        /\ root' = <<>>
        /\ prev' = <<>>
        /\ UNCHANGED <<screenshots, consoleLogs>>

\* The browser goes away (closed window, crash): isConnected() turns false
BrowserDisconnected ==
    /\ connected
    /\ connected' = FALSE
    /\ doc' = BlankDocument
    /\ UNCHANGED source
    /\ root' = <<>>
    /\ prev' = <<>>
    /\ UNCHANGED <<outcome, screenshots, consoleLogs>>

InitServerState ==
    /\ outcome = NoRequest
    /\ root = <<>>
    /\ prev = <<>>
    /\ screenshots = <<>>
    /\ consoleLogs = <<>>
    /\ connected = TRUE

\* The documents of n nodes
Documents(n) ==
    {d \in {BuildDocument(body, p, f) :
                body \in Bodies, p \in ParentVectors(n),
                f \in [2..n -> StructureNodes]} : WellFormed(d)}

\* The browser is up and the page shows the document the site serves, one
\* of at most MaxNodes nodes
Init ==
    /\ \E n \in 1..MaxNodes : doc \in Documents(n)
    /\ source = doc
    /\ InitServerState

Next == CallExtractDom \/ CallNavigate

Spec == Init /\ [][Next]_vars

(***************************************************************************)
(* Locators.  A selector is a tag name or an id no element has;            *)
(* locator.waitFor() rejects when nothing matches.                         *)
(***************************************************************************)
Selectors == {"input", "#missing"}

Matches(d, selector) ==
    {n \in Nodes(d) : d[n].kind = "element" /\ ToLowerCase(d[n].tagName) = selector}

Located(d, selector) ==
    CHOOSE n \in Matches(d, selector) : \A m \in Matches(d, selector) : n <= m

WaitForMessage(selector) == <<"Timeout exceeded waiting for locator ", selector>>
NotFillableMessage == <<"Element is not an <input>, <textarea> or <select>">>
NotSelectMessage == <<"Element is not a <select> element">>

FillValues == {<<>>, <<"x">>}

\* case "playwright_fill" (lines 357-377)
CallFill ==
    \E selector \in Selectors, value \in FillValues :
        LET found == Matches(Page, selector) # {}
            target == Located(Page, selector)
            fillable == found /\ Page[target].tagName \in {"INPUT", "TEXTAREA"}
        IN /\ connected' = TRUE
           /\ UNCHANGED source
           /\ doc' = IF fillable
                     THEN [Page EXCEPT ![target].value = StringValue(value)]
                     ELSE Page
           /\ outcome' =
                IF fillable
                THEN Result("playwright_fill", <<selector>>, FALSE,
                            <<"Filled ", selector, " with: ">> \o value)
                ELSE Caught("playwright_fill", <<selector>>,
                            <<"Failed to fill ", selector, ": ">>
                                \o (IF found THEN NotFillableMessage
                                    ELSE WaitForMessage(selector)))
           /\ root' = <<>>
           /\ prev' = <<>>
           /\ UNCHANGED <<screenshots, consoleLogs>>

(***************************************************************************)
(* The specification of the attribute rules: the page shows a body with    *)
(* one element, whose attributes are drawn from the names and values the   *)
(* rules of cleanupDom tell apart.                                         *)
(***************************************************************************)
AttrNames == {"type", "role", "class"}

AttrValues ==
    {<<>>, <<" ">>, <<"button">>, <<"presentation">>, <<"hidden">>,
     <<" ", "a", " ", "\t", "b">>}

\* Attribute lists of at most k entries, no name twice
RECURSIVE AttrLists(_)
AttrLists(k) ==
    IF k = 0 THEN {<<>>}
    ELSE AttrLists(k - 1) \cup
         {Append(l, Attr(name, value)) :
            l \in {m \in AttrLists(k - 1) : Len(m) = k - 1},
            name \in AttrNames, value \in AttrValues}

DistinctNames(l) == \A i, j \in 1..Len(l) : l[i].name = l[j].name => i = j

ElementsUnderTest ==
    {Element(tag.tagName, attrs, tag.value, FALSE) :
        tag \in {[tagName |-> "DIV", value |-> Undefined],
                 [tagName |-> "BUTTON", value |-> StringValue(<<>>)],
                 [tagName |-> "INPUT", value |-> StringValue(<<>>)],
                 [tagName |-> "INPUT", value |-> StringValue(<<"x", " ">>)]},
        attrs \in {l \in AttrLists(MaxAttrs) : DistinctNames(l)}}

InitAttr ==
    /\ \E e \in ElementsUnderTest :
        doc = <<Body(<<>>), [e EXCEPT !.parent = 1]>>
    /\ source = doc
    /\ InitServerState

NextAttr == CallExtractDom \/ CallNavigate \/ CallFill

SpecAttr == InitAttr /\ [][NextAttr]_vars

(***************************************************************************)
(* The other tools of handleToolCall, the resource handlers and the        *)
(* console callback.                                                       *)
(***************************************************************************)
NameTokens == {"a", "://"}

RECURSIVE Strings(_, _)
\* The strings of at most k tokens
Strings(tokens, k) ==
    IF k = 0 THEN {<<>>}
    ELSE Strings(tokens, k - 1) \cup
         {Append(w, t) : w \in {v \in Strings(tokens, k - 1) : Len(v) = k - 1},
                         t \in tokens}

Names == Strings(NameTokens, MaxNameLen)

\* What (await item.screenshot()).toString('base64') can be
Images == {<<"iVBOR">>, <<"R0lGO">>}

ScreenshotMessage == <<"Target page, context or browser has been closed">>

Entry(name, image) == [name |-> name, image |-> image]

MapHas(map, name) == \E i \in 1..Len(map) : map[i].name = name

\* Map.prototype.get, for a key the map has
MapGet(map, name) == map[CHOOSE i \in 1..Len(map) : map[i].name = name].image

\* Map.prototype.set: a key keeps its place, a new key goes last
MapSet(map, name, image) ==
    IF MapHas(map, name)
    THEN [i \in 1..Len(map) |->
            IF map[i].name = name THEN Entry(name, image) ELSE map[i]]
    ELSE Append(map, Entry(name, image))

\* What item.screenshot() does: yields an image, yields nothing, rejects
Rejects == <<"rejects">>
ScreenshotResults == Images \cup {<<>>, Rejects}

\* case "playwright_screenshot" (lines 292-333)
CallScreenshot ==
    \E name \in Names, selector \in Selectors \cup {""},
       image \in ScreenshotResults :
        /\ MapHas(screenshots, name) \/ Len(screenshots) < MaxShots
        /\ connected' = TRUE
        /\ UNCHANGED source
        /\ doc' = Page
        /\ root' = <<>>
        /\ prev' = <<>>
        /\ UNCHANGED consoleLogs
        /\ IF selector # "" /\ Matches(Page, selector) = {}
           THEN /\ outcome' = Rejected("playwright_screenshot", name,
                                       WaitForMessage(selector))
                /\ UNCHANGED screenshots
           ELSE IF image = Rejects
           THEN /\ outcome' = Rejected("playwright_screenshot", name,
                                       ScreenshotMessage)
                /\ UNCHANGED screenshots
           ELSE IF image = <<>>
           THEN /\ outcome' =
                    Caught("playwright_screenshot", name,
                           IF selector # ""
                           THEN <<"Element not found: ", selector>>
                           ELSE <<"Screenshot failed">>)
                /\ UNCHANGED screenshots
           ELSE /\ screenshots' = MapSet(screenshots, name, image)
                /\ outcome' =
                    Result("playwright_screenshot", name, FALSE,
                           <<"Screenshot '">> \o name
                               \o <<"' taken at ", "800", "x", "600">> \o image)

\* What the try blocks of "playwright_click" (335-355), "playwright_select"
\* (379-399) and "playwright_hover" (428-448) return: locate, wait, act,
\* every failure caught.  actionMessage: the error of the action itself,
\* <<>> when it succeeds.
LocatorOutcome(tool, selector, done, failure, actionMessage) ==
    IF Matches(Page, selector) = {}
    THEN Caught(tool, <<selector>>,
                <<failure, selector, ": ">> \o WaitForMessage(selector))
    ELSE IF actionMessage # <<>>
    THEN Caught(tool, <<selector>>, <<failure, selector, ": ">> \o actionMessage)
    ELSE Result(tool, <<selector>>, FALSE, <<done, selector>>)

\* The page after a tool that leaves the document as it is
PageKept ==
    /\ connected' = TRUE
    /\ UNCHANGED source
    /\ doc' = Page
    /\ root' = <<>>
    /\ prev' = <<>>

CallClick ==
    \E selector \in Selectors :
        /\ PageKept
        /\ outcome' = LocatorOutcome("playwright_click", selector,
                                     "Clicked: ", "Failed to click ", <<>>)
        /\ UNCHANGED <<screenshots, consoleLogs>>

\* no document of the model holds a <select>: selectOption rejects
CallSelect ==
    \E selector \in Selectors :
        /\ PageKept
        /\ outcome' = LocatorOutcome("playwright_select", selector,
                                     "Selected ", "Failed to select ",
                                     NotSelectMessage)
        /\ UNCHANGED <<screenshots, consoleLogs>>

CallHover ==
    \E selector \in Selectors :
        /\ PageKept
        /\ outcome' = LocatorOutcome("playwright_hover", selector,
                                     "Hovered ", "Failed to hover ", <<>>)
        /\ UNCHANGED <<screenshots, consoleLogs>>

Scripts == {<<"1+1">>, <<"throw new Error('boom')">>}

\* case "playwright_evaluate" (lines 450-490)
CallEvaluate ==
    \E script \in Scripts :
        /\ connected' = TRUE
        /\ UNCHANGED source
        /\ doc' = Page
        /\ root' = <<>>
        /\ prev' = <<>>
        /\ UNCHANGED <<screenshots, consoleLogs>>
        /\ outcome' =
            IF script = <<"1+1">>
            THEN Result("playwright_evaluate", script, FALSE,
                        <<"Execution result:\n", "2", "\n\nConsole output:\n">>)
            ELSE Caught("playwright_evaluate", script,
                        <<"Script execution failed: ", "boom">>)

\* the default case (lines 492-499)
CallUnknown ==
    /\ connected' = TRUE
    /\ UNCHANGED source
    /\ doc' = Page
    /\ outcome' = Result("playwright_unknown", <<>>, TRUE,
                         <<"Unknown tool: ", "playwright_unknown">>)
    /\ UNCHANGED <<root, prev, screenshots, consoleLogs>>

\* the page's "console" callback (lines 132-136)
ConsoleMessage ==
    /\ connected
    /\ Len(consoleLogs) < MaxLogs
    /\ consoleLogs' = Append(consoleLogs, <<"[", "log", "] ", "hello">>)
    /\ UNCHANGED <<doc, source, outcome, root, prev, screenshots, connected>>

ConsoleUri == <<"console", "://", "logs">>

\* `screenshot://${name}` (line 530)
ScreenshotUri(name) == <<"screenshot", "://">> \o name

\* The uris of the list-resources response (lines 522-535)
AdvertisedUris(map) ==
    <<ConsoleUri>> \o [i \in 1..Len(map) |-> ScreenshotUri(map[i].name)]

ListResources ==
    /\ outcome' = Result("resources/list", <<>>, FALSE,
                         Join(AdvertisedUris(screenshots), <<"\n">>))
    /\ UNCHANGED <<doc, source, root, prev, screenshots, consoleLogs, connected>>

\* String.prototype.startsWith
StartsWith(s, prefix) ==
    Len(s) >= Len(prefix) /\ SubSeq(s, 1, Len(prefix)) = prefix

\* String.prototype.split on the separator token
RECURSIVE Split(_, _)
Split(s, sep) ==
    IF \A i \in 1..Len(s) : s[i] # sep THEN <<s>>
    ELSE LET at == CHOOSE i \in 1..Len(s) :
                      s[i] = sep /\ \A j \in 1..(i - 1) : s[j] # sep
         IN <<SubSeq(s, 1, at - 1)>> \o Split(SubSeq(s, at + 1, Len(s)), sep)

\* uri.split("://")[1] (line 551), for a uri that starts with screenshot://
NameOfUri(uri) == Split(uri, "://")[2]

\* The read-resource handler (lines 537-565) for `uri`
ReadResourceResponse(uri) ==
    IF uri = ConsoleUri
    THEN Result("resources/read", uri, FALSE, Join(consoleLogs, <<"\n">>))
    ELSE IF /\ StartsWith(uri, <<"screenshot", "://">>)
            /\ MapHas(screenshots, NameOfUri(uri))
    THEN Result("resources/read", uri, FALSE,
                MapGet(screenshots, NameOfUri(uri)))
    ELSE Rejected("resources/read", uri, <<"Resource not found: ">> \o uri)

ReadResource ==
    \E uri \in {ConsoleUri, <<"file", "://", "a">>}
                \cup {ScreenshotUri(name) : name \in Names} :
        /\ outcome' = ReadResourceResponse(uri)
        /\ UNCHANGED <<doc, source, root, prev, screenshots, consoleLogs, connected>>

\* The page of the server specifications: an input and a frame
ServerDocument ==
    <<Body(<<>>),
      [Element("INPUT", <<Attr("type", <<"text">>)>>, StringValue(<<>>), FALSE)
            EXCEPT !.parent = 1],
      [Element("DIV", <<Attr("aria-hidden", <<"true">>)>>, Undefined, FALSE)
            EXCEPT !.parent = 1],
      [Element("IFRAME", <<Attr("src", <<"x">>)>>, Undefined, FALSE)
            EXCEPT !.parent = 3]>>

InitServer ==
    /\ doc = ServerDocument
    /\ source = doc
    /\ InitServerState

NextServer ==
    \/ CallNavigate
    \/ CallScreenshot
    \/ CallClick
    \/ CallFill
    \/ CallSelect
    \/ CallExtractDom
    \/ CallHover
    \/ CallEvaluate
    \/ CallUnknown
    \/ BrowserDisconnected

\* The tools of handleToolCall
SpecServer == InitServer /\ [][NextServer]_vars

NextResources ==
    \/ CallScreenshot
    \/ ListResources
    \/ ReadResource
    \/ ConsoleMessage

\* The screenshots and the resource handlers
SpecResources == InitServer /\ [][NextResources]_vars

(***************************************************************************)
(* Vocabulary of the claims, stated on the document and on the tree,       *)
(* independently of the rules of cleanupDom above.                         *)
(***************************************************************************)
ClaimPrunedTags ==
    {"STYLE", "SCRIPT", "NOSCRIPT", "LINK", "META", "HEAD", "CODE", "SVG",
     "FONT", "BR"}

\* The node is an element with a pruned tag or a hiding attribute
ClaimPruned(d, n) ==
    /\ d[n].kind = "element"
    /\ \/ d[n].tagName \in ClaimPrunedTags
       \/ AttributeIs(d[n], "type", <<"hidden">>)
       \/ AttributeIs(d[n], "disabled", <<"true">>)
       \/ AttributeIs(d[n], "aria-hidden", <<"true">>)

\* The node is an element assigned to a slot
Slotted(d, n) == d[n].kind = "element" /\ AssignedSlot(d, n) # 0

\* The node and its ancestors are light-DOM children (none is in a shadow root)
InLightTree(d, n) == \A a \in {n} \cup Ancestors(d, n) : ~d[a].shadow

\* The ancestors of n below the body
AncestorsBelowBody(d, n) == Ancestors(d, n) \ {1}

\* The last request was an extraction, and it returned a tree
Extracted ==
    /\ outcome.tool = "playwright_extract_dom"
    /\ ~outcome.isError
    /\ root # <<>>

\* The nodes of the output tree made from DOM node n
OutputOf(n) == {k \in 1..Len(root) : root[k].src = n}

OutputElements == {k \in 1..Len(root) : root[k].type = "element"}

RECURSIVE OutputSubtree(_, _)
\* The output nodes of the subtree at `at`, in depth-first preorder
OutputSubtree(heap, at) ==
    LET RECURSIVE Each(_)
        Each(cs) ==
            IF cs = <<>> THEN <<>>
            ELSE OutputSubtree(heap, Head(cs)) \o Each(Tail(cs))
    IN <<at>> \o Each(heap[at].children)

OutputPreorder == OutputSubtree(root, 1)

PreorderIndex(k) == CHOOSE i \in 1..Len(OutputPreorder) : OutputPreorder[i] = k

\* The identifier recorded on an output element: its mcp-id, as a number
OutputId(k) == ParseInt(GetAttribute([attrs |-> root[k].attributes], "mcp-id"))

(***************************************************************************)
(* C1.  No pruned element (pruned tag, or type="hidden", disabled="true",  *)
(* aria-hidden="true") and no descendant of one appears in the tree        *)
(* extractDom builds: every node of the tree comes from a DOM node that is *)
(* not pruned and has no pruned ancestor.                                  *)
(***************************************************************************)
C1_PrunedSubtreesAbsent ==
    Extracted =>
        \A k \in 1..Len(root) :
            \A a \in {root[k].src} \cup Ancestors(doc, root[k].src) :
                ~ClaimPruned(doc, a)

\* A tree was built from a document holding a pruned element (got its
\* mcp-id all the same) that has a child, next to nodes that were emitted
C1_Witness ==
    /\ Extracted
    /\ Len(root) >= 2
    /\ \E n \in Nodes(doc) :
        /\ ClaimPruned(doc, n)
        /\ HasAttribute(doc[n], "mcp-id")
        /\ \E c \in Nodes(doc) : doc[c].parent = n /\ ~IsBlank(doc[c].data)

(***************************************************************************)
(* C2.  Every element assigned to a slot (not pruned, not inside a pruned  *)
(* subtree) is in the extracted tree exactly once, below the output node   *)
(* of its <slot>, and not as a child of its light-DOM parent's node.       *)
(***************************************************************************)
C2_SlottedEmittedOnceUnderSlot ==
    Extracted =>
        \A n \in Nodes(doc) :
            (/\ Slotted(doc, n)
             /\ \A a \in {n} \cup AncestorsBelowBody(doc, n) : ~ClaimPruned(doc, a))
            => /\ Cardinality(OutputOf(n)) = 1
               /\ \A k \in OutputOf(n) :
                    /\ \E s \in OutputOf(AssignedSlot(doc, n)) :
                        \E i \in 2..Len(OutputSubtree(root, s)) :
                            OutputSubtree(root, s)[i] = k
                    /\ \A q \in OutputOf(doc[n].parent) :
                        \A i \in 1..Len(root[q].children) :
                            root[q].children[i] # k

(***************************************************************************)
(* C3.  Whenever the body holds an IFRAME anywhere in its tree, whatever   *)
(* its attributes and ancestors, the extraction fails with an error result *)
(* and no tree.                                                            *)
(***************************************************************************)
C3_AnyIframeFails ==
    (/\ outcome.tool = "playwright_extract_dom"
     /\ \E n \in Nodes(doc) : n # 1 /\ doc[n].tagName = "IFRAME")
    => outcome.isError /\ root = <<>>

\* An IFRAME the walk reaches: in the light tree, neither pruned nor
\* slotted, below no pruned or slotted ancestor
ReachedIframe(d, n) ==
    /\ n # 1
    /\ d[n].tagName = "IFRAME"
    /\ InLightTree(d, n)
    /\ ~ClaimPruned(d, n)
    /\ ~Slotted(d, n)
    /\ \A a \in AncestorsBelowBody(d, n) : ~ClaimPruned(d, a) /\ ~Slotted(d, a)

(***************************************************************************)
(* C3, amended.  An extraction fails exactly when the walk reaches an      *)
(* IFRAME or the body itself is pruned.  With an IFRAME the walk reaches   *)
(* (in the light tree, neither pruned nor slot-assigned, below no pruned   *)
(* or slot-assigned element) the tool call returns normally with isError   *)
(* true, no tree, and the message of the error: IFRAME not supported, or,  *)
(* under a pruned body, the null-root error met first.  An IFRAME that is  *)
(* pruned, slot-assigned or below such an element is never examined and    *)
(* does not fail the extraction.                                           *)
(***************************************************************************)
C3_ReachedIframeFails ==
    outcome.tool = "playwright_extract_dom" =>
        /\ (\E n \in Nodes(doc) : ReachedIframe(doc, n))
            => /\ ~outcome.threw
               /\ outcome.isError
               /\ root = <<>>
               /\ \/ outcome.text = <<"Failed to extract DOM: ">> \o IframeMessage
                  \/ /\ ClaimPruned(doc, 1)
                     /\ outcome.text =
                            <<"Failed to extract DOM: ">> \o NullChildrenMessage
        /\ outcome.isError
            => \/ \E n \in Nodes(doc) : ReachedIframe(doc, n)
               \/ ClaimPruned(doc, 1)

\* An extraction that failed on an IFRAME nested below a kept element
C3_Witness ==
    /\ outcome.tool = "playwright_extract_dom"
    /\ outcome.isError
    /\ outcome.text = <<"Failed to extract DOM: ">> \o IframeMessage
    /\ \E n \in Nodes(doc) : ReachedIframe(doc, n) /\ doc[n].parent # 1

(***************************************************************************)
(* C4.  The identifiers on the output elements are pairwise distinct, the  *)
(* body has "1", and they increase strictly in depth-first preorder of the *)
(* tree.                                                                   *)
(***************************************************************************)
C4_IdsIncreaseInPreorder ==
    Extracted =>
        /\ root[1].src = 1
        /\ GetAttribute([attrs |-> root[1].attributes], "mcp-id") = <<"1">>
        /\ \A a, b \in OutputElements :
            /\ a # b => OutputId(a) # OutputId(b)
            /\ PreorderIndex(a) < PreorderIndex(b) => OutputId(a) < OutputId(b)

(***************************************************************************)
(* C8.  Two extractions in succession, the page left alone in between,     *)
(* build structurally identical trees (tags, attribute names and values in *)
(* order, text, nesting, value), identifier values apart.                  *)
(***************************************************************************)
BlankIdentifier(a) == IF a.name = "mcp-id" THEN Attr(a.name, <<>>) ELSE a

Structure(heap) ==
    [k \in 1..Len(heap) |->
        [heap[k] EXCEPT !.attributes =
            [i \in 1..Len(@) |-> BlankIdentifier(@[i])]]]

C8_ExtractionIdempotent ==
    prev # <<>> => root # <<>> /\ Structure(root) = Structure(prev)

\* A second extraction in a row, of a document with a pruned element the
\* first one marked, and with something emitted below the body
C8_Witness ==
    /\ prev # <<>>
    /\ Len(root) >= 3
    /\ \E n \in Nodes(doc) : ClaimPruned(doc, n) /\ HasAttribute(doc[n], "mcp-id")

\* A node the claim C10 counts as kept
KeptNode(d, n) ==
    /\ d[n].kind = "text" => ~IsBlank(d[n].data)
    /\ \A a \in {n} \cup AncestorsBelowBody(d, n) : ~ClaimPruned(d, a)

\* The output tree has the DOM's shape at node n: one output node, under
\* the output node of n's parent
ShapeKeptAt(n) ==
    /\ Cardinality(OutputOf(n)) = 1
    /\ \A k \in OutputOf(n) :
        IF n = 1 THEN k = 1
        ELSE \E q \in OutputOf(doc[n].parent) :
                \E i \in 1..Len(root[q].children) : root[q].children[i] = k

\* The children of every output node are in document order
ChildrenInDocumentOrder ==
    \A k \in 1..Len(root) :
        \A i, j \in 1..Len(root[k].children) :
            i < j => root[root[k].children[i]].src < root[root[k].children[j]].src

(***************************************************************************)
(* C10.  Every node that is not pruned and has no pruned                   *)
(* ancestor (a text node: with non-empty text) is in the output exactly    *)
(* once, as a child of its DOM parent's output node, children in document  *)
(* order.  Stated for the nodes of the light-DOM tree only, the ones whose *)
(* DOM parent is an element.                                               *)
(***************************************************************************)
C10_ShapeOfAllKeptNodes ==
    Extracted =>
        /\ \A n \in Nodes(doc) :
            KeptNode(doc, n) /\ InLightTree(doc, n) => ShapeKeptAt(n)
        /\ ChildrenInDocumentOrder

\* The entries of an output element that come from the element's own
\* attributes: all but the synthetic value entry an INPUT starts with
OwnEntries(node) ==
    IF node.tagName = "INPUT" THEN Tail(node.attributes) ELSE node.attributes

NoiseFree(tagName, a) ==
    /\ Trim(a.value) # <<>>
    /\ ~(a.name = "role" /\ a.value = <<"presentation">>)
    /\ tagName = "BUTTON" => ~(a.name = "type" /\ a.value = <<"button">>)

(***************************************************************************)
(* C5.  In every ElementNode of every extracted tree, no                   *)
(* attribute entry has a value that is empty after trimming, none is       *)
(* role="presentation" and, on a BUTTON, none is type="button"; for every  *)
(* entry, the synthetic value entry of an input included.                  *)
(***************************************************************************)
C5_NoNoiseInAnyEntry ==
    Extracted =>
        \A k \in OutputElements :
            \A i \in 1..Len(root[k].attributes) :
                NoiseFree(root[k].tagName, root[k].attributes[i])

\* What the claim C7 says the normalizer emits for the attributes `attrs`
\* of an element with tag tagName
RECURSIVE ClaimedAttributes(_, _)
ClaimedAttributes(tagName, attrs) ==
    IF attrs = <<>> THEN <<>>
    ELSE LET a == Head(attrs)
             rest == ClaimedAttributes(tagName, Tail(attrs))
             elided ==
                \/ a.name = "role" /\ Trim(a.value) = <<"presentation">>
                \/ tagName = "BUTTON" /\ a.name = "type"
                    /\ Trim(a.value) = <<"button">>
         IN IF Trim(a.value) = <<>> \/ elided THEN rest
            ELSE <<Attr(a.name, Trim(CollapseWhitespace(a.value)))>> \o rest

(***************************************************************************)
(* C7.  The normalizer emits a source attribute if and only if its trimmed *)
(* value is non-empty and it is not one of the two elided pairs (role =    *)
(* presentation; type = button on a BUTTON); the emitted ones have their   *)
(* whitespace collapsed and are in the DOM's enumeration order.            *)
(***************************************************************************)
C7_EmitsExactlyTheClaimedAttributes ==
    Extracted =>
        \A k \in OutputElements :
            OwnEntries(root[k]) =
                ClaimedAttributes(root[k].tagName, doc[root[k].src].attrs)

ToolNames ==
    {"playwright_navigate", "playwright_screenshot", "playwright_click",
     "playwright_fill", "playwright_select", "playwright_hover",
     "playwright_extract_dom", "playwright_evaluate", "playwright_unknown"}

(***************************************************************************)
(* C6.  Every tool call whose browser action fails returns normally, with  *)
(* a result whose isError is true: for no tool does the failure leave      *)
(* handleToolCall as a thrown error.                                       *)
(***************************************************************************)
C6_FailuresBecomeErrorResults ==
    (outcome.tool \in ToolNames /\ outcome.failed)
    => ~outcome.threw /\ outcome.isError

(***************************************************************************)
(* C9.  Every screenshot uri the list-resources handler advertises can be  *)
(* read, and the read returns the image stored under that name: a read of  *)
(* screenshot://<name>, <name> a stored name, returns that name's image.   *)
(***************************************************************************)
C9_AdvertisedScreenshotsReadable ==
    \A i \in 1..Len(screenshots) :
        (/\ outcome.tool = "resources/read"
         /\ outcome.arg = AdvertisedUris(screenshots)[i + 1])
        => /\ ~outcome.threw
           /\ outcome.text = screenshots[i].image

====
